---------------------------- MODULE Spec2Model ----------------------------
(***************************************************************************)
(* State-machine model of the AngularJS controller 'myController' of       *)
(* stream2segment/gui/webapp/static/js/app.js: segment navigation, linked  *)
(* zoom, the /get_data fetch pipeline and label toggling, together with    *)
(* the network (requests and responses in flight, delivered in any order)  *)
(* and the backend endpoints the controller talks to.                      *)
(*                                                                         *)
(* JavaScript arrays are zero-based, TLA+ sequences one-based: plot i of   *)
(* the code is plots[i + 1] here, segment index k is elements[k + 1].      *)
(***************************************************************************)
EXTENDS Integers, Sequences, FiniteSets, Bags, TLC

(***************************************************************************)
(* Bounds of the model.                                                    *)
(***************************************************************************)
\* the longest segment list the backend returns
MaxSegs == 2
\* the most messages (requests and responses) in flight at once
MaxInFlight == 2
\* how far below zero repeated setPreviousIndex calls may push the index
MaxNegDepth == 2
\* the longest text typed into the segment-number box
MaxTextLen == 2

MaxArgs == 3

\* $window._NUM_CUSTOM_PLOTS, read at app.js:8
NUM_CUSTOM_PLOTS == 2

(***************************************************************************)
(* JavaScript values.  A number is a record so that NaN can be told from   *)
(* the integers; -0 is identified with 0 (they differ in no comparison or  *)
(* array access the controller makes).                                     *)
(***************************************************************************)
NaN == [nan |-> TRUE, v |-> 0]

Num(n) == [nan |-> FALSE, v |-> n]

JsAdd(a, b) == IF a.nan \/ b.nan THEN NaN ELSE Num(a.v + b.v)

JsSub(a, b) == IF a.nan \/ b.nan THEN NaN ELSE Num(a.v - b.v)

Abs(n) == IF n < 0 THEN -n ELSE n

\* a % b : the remainder takes the sign of the dividend; x % 0 is NaN
JsRem(a, b) ==
    IF a.nan \/ b.nan \/ b.v = 0 THEN NaN
    ELSE LET m == Abs(a.v) % Abs(b.v)
         IN  Num(IF a.v < 0 THEN -m ELSE m)

\* a < b, a > b, a <= b, a == b : every comparison with NaN is false
JsLt(a, b) == ~a.nan /\ ~b.nan /\ a.v < b.v

JsGt(a, b) == ~a.nan /\ ~b.nan /\ a.v > b.v

JsLe(a, b) == ~a.nan /\ ~b.nan /\ a.v <= b.v

JsEq(a, b) == ~a.nan /\ ~b.nan /\ a.v = b.v

\* the value of reading a missing property or array element
Undefined == "undefined"

Null == "null"

\* array[index] for a number index: undefined outside 0 .. length-1 and for NaN
ElementAt(arr, index) ==
    IF ~index.nan /\ index.v >= 0 /\ index.v < Len(arr)
    THEN arr[index.v + 1]
    ELSE Undefined

(***************************************************************************)
(* parseInt(text), text a sequence of characters: leading blanks are       *)
(* skipped, then an optional sign, then the longest run of decimal digits  *)
(* is read; whatever follows the digits is dropped, and no digit at all    *)
(* gives NaN.                                                              *)
(***************************************************************************)
Digits == {"0", "1", "2", "3", "4", "5", "6", "7", "8", "9"}

DigitVal(c) ==
    CASE c = "0" -> 0 [] c = "1" -> 1 [] c = "2" -> 2 [] c = "3" -> 3
      [] c = "4" -> 4 [] c = "5" -> 5 [] c = "6" -> 6 [] c = "7" -> 7
      [] c = "8" -> 8 [] c = "9" -> 9

RECURSIVE SkipBlanks(_)
SkipBlanks(t) ==
    IF t # <<>> /\ Head(t) = " " THEN SkipBlanks(Tail(t)) ELSE t

RECURSIVE DigitRun(_, _)
DigitRun(t, acc) ==
    IF t # <<>> /\ Head(t) \in Digits
    THEN DigitRun(Tail(t), acc * 10 + DigitVal(Head(t)))
    ELSE acc

parseInt(text) ==
    LET s    == SkipBlanks(text)
        neg  == s # <<>> /\ Head(s) = "-"
        body == IF s # <<>> /\ Head(s) \in {"-", "+"} THEN Tail(s) ELSE s
    IN  IF body = <<>> \/ Head(body) \notin Digits
        THEN NaN
        ELSE Num(IF neg THEN -DigitRun(body, 0) ELSE DigitRun(body, 0))

\* the characters the user types, and the texts made of them
Chars == {"0", "1", "2", "a"}

Texts == UNION {[1..n -> Chars] : n \in 0..MaxTextLen}


(***************************************************************************)
(* Plots.  $scope.plots is created as new Array(3 + NUM_CUSTOM_PLOTS): an  *)
(* array of holes until configPlots fills it with {div, zoom} entries.     *)
(***************************************************************************)
NumPlots == 3 + NUM_CUSTOM_PLOTS

PlotIndices == 0..(NumPlots - 1)

Hole == [hole |-> TRUE]

IsHole(p) == "hole" \in DOMAIN p

NullZoom == <<Null, Null>>

\* what a hole of an array becomes in the JSON body of a request
JsonNull == <<>>

PlotEntry(i) == [div |-> i, zoom |-> NullZoom]

\* the payload keys that mark a zoom, and the payloads of relayout events
K0 == "xaxis.range[0]"

K1 == "xaxis.range[1]"

Ranges == {<<"1000", "2000">>, <<"1500", "1800">>}

Payload(keys, r) == [k \in keys |-> IF k = K0 THEN r[1] ELSE r[2]]

\* zooms to either range, payloads lacking one of the keys, and the payload
\* (lacking both) of the relayout that redrawPlots makes to set a title
EventPayloads ==
    {Payload({K0, K1}, r) : r \in Ranges}
        \cup {Payload({k}, <<"1000", "2000">>) : k \in {K0, K1}}
        \cup {[k \in {"title"} |-> "a title"]}

\* eventdata[k]
Get(eventdata, k) == IF k \in DOMAIN eventdata THEN eventdata[k] ELSE Undefined

(***************************************************************************)
(* The backend's data and the messages of the four endpoints.              *)
(***************************************************************************)
AllSegIds == <<"s1", "s2", "s3", "s4">>

ClassIds == {7}

Range(f) == {f[x] : x \in DOMAIN f}

Request(url, param) == [dir |-> "request", url |-> url, param |-> param]

EmptyBody == [body |-> "{}"]

GetDataRequest(segId, filtered, zooms) ==
    Request("/get_data", [segId |-> segId, filteredRemResp |-> filtered, zooms |-> zooms])

ToggleRequest(classId, segId) ==
    Request("/toggle_class_id", [class_id |-> classId, segment_id |-> segId])

VARIABLES
    elements,                \* $scope.elements
    currentIndex,            \* $scope.currentIndex
    data,                    \* $scope.data
    plots,                   \* $scope.plots
    traces,                  \* div.data of each plot surface
    showFiltered,            \* $scope.showFiltered
    classes,                 \* $scope.classes
    currentSegmentClassIds,  \* $scope.currentSegmentClassIds
    configTimer,             \* the $timeout of refreshElements is pending
    net,                     \* bag of the $http messages in flight
    srvSegments,             \* backend: the segment ids it serves
    srvLabels,               \* backend: the class ids of each segment
    lastEvent,               \* the handler that ran last
    pc,                      \* pipinstall: the position in the script
    args,                    \* pipinstall: "$@"
    fileLines,               \* pipinstall: the lines of the requirements file
    argIndex,                \* pipinstall: the loop variable $i
    reqfile,                 \* pipinstall: $reqfile
    numpy,                   \* pipinstall: $numpy
    ran,                     \* pipinstall: the pip commands run, with their outcome
    status                   \* pipinstall: $?

scopeVars ==
    <<elements, currentIndex, data, plots, showFiltered, classes,
      currentSegmentClassIds, configTimer>>

\* what the page shows besides the scope: the plotly surfaces
pageVars == <<traces>>

\* the variables of the page and of the backend it talks to
pageAndBackendVars == <<scopeVars, pageVars, net, srvSegments, srvLabels, lastEvent>>

\* the variables of the pipinstall script
scriptVars == <<pc, args, fileLines, argIndex, reqfile, numpy, ran, status>>

vars == <<pageAndBackendVars, scriptVars>>

\* the payload recorded for a handler that takes none
NoPayload == [k \in {} |-> Undefined]

\* the record of a handler run: its name, the plot and payload of a relayout
\* event, the index it found and, for a setPreviousIndex that runs right after
\* a setNextIndex, the index that setNextIndex had found (NaN otherwise)
Event(name, plotIndex, eventdata) ==
    [name |-> name, plotIndex |-> plotIndex, eventdata |-> eventdata,
     from |-> currentIndex,
     nextFrom |-> IF name = "setPreviousIndex" /\ lastEvent.name = "setNextIndex"
                  THEN lastEvent.from ELSE NaN]

NoData == [empty |-> TRUE]

\* pipinstall is not running
ScriptNotStarted ==
    /\ pc = "none"
    /\ args = <<>>
    /\ fileLines = <<>>
    /\ argIndex = 1
    /\ reqfile = ""
    /\ numpy = <<>>
    /\ ran = <<>>
    /\ status = 0

\* the page as the controller function leaves it, and the backend it will ask
PageInit ==
    /\ elements = <<>>
    /\ currentIndex = Num(-1)
    /\ data = NoData
    /\ plots = [i \in 1..NumPlots |-> Hole]
    /\ traces = [i \in 1..NumPlots |-> <<>>]
    /\ showFiltered = TRUE
    /\ classes = {}
    /\ currentSegmentClassIds = {}
    /\ configTimer = FALSE
    /\ net = SetToBag({Request("/get_classes", EmptyBody)})
    /\ srvSegments \in {SubSeq(AllSegIds, 1, n) : n \in 0..MaxSegs}
    /\ srvLabels \in [Range(srvSegments) -> SUBSET ClassIds]
    /\ lastEvent = [name |-> "init", plotIndex |-> -1, eventdata |-> NoPayload,
                    from |-> Num(-1), nextFrom |-> NaN]

Init == PageInit /\ ScriptNotStarted

(***************************************************************************)
(* The controller.                                                         *)
(***************************************************************************)
Configured(ps) == \A i \in DOMAIN ps : ~IsHole(ps[i])

\* a setCurrentIndex that reads the zooms after it has reset them
ZoomsOfAfterReset(ps) == [i \in DOMAIN ps |-> IF IsHole(ps[i]) THEN JsonNull ELSE NullZoom]

\* the zooms array of setCurrentIndex: Array.map skips the holes of an array
ZoomsOf(ps) == [i \in DOMAIN ps |-> IF IsHole(ps[i]) THEN JsonNull ELSE ps[i].zoom]

\* a map callback that forgets to reset the zoom
ResetZoomsForgotten(ps) == ps

\* the plots as the map callback of setCurrentIndex leaves them
ResetZooms(ps) ==
    [i \in DOMAIN ps |-> IF IsHole(ps[i]) THEN ps[i] ELSE [ps[i] EXCEPT !.zoom = NullZoom]]

\* $scope.setCurrentIndex(index), entered with the plots being ps
setCurrentIndex(index, ps) ==
    /\ currentIndex' = index
    /\ IF JsLt(index, Num(0))
       THEN /\ plots' = ps
            /\ net' = net
       ELSE /\ BagCardinality(net) < MaxInFlight
            /\ plots' = ResetZooms(ps)
            /\ net' = net (+) SetToBag({GetDataRequest(ElementAt(elements, index),
                                                       showFiltered, ZoomsOf(ps))})

\* $scope.refreshCurrentIndex()
refreshCurrentIndex(ps) == setCurrentIndex(currentIndex, ps)

NextIndexValue(cur, n) == JsRem(JsAdd(cur, Num(1)), Num(n))

\* setPreviousIndex without the wraparound
PreviousIndexValueNoWrap(cur, n) == JsSub(cur, Num(1))

PreviousIndexValue(cur, n) ==
    IF JsEq(cur, Num(0)) THEN JsSub(Num(n), Num(1)) ELSE JsSub(cur, Num(1))

SetNextIndex ==
    /\ setCurrentIndex(NextIndexValue(currentIndex, Len(elements)), plots)
    /\ UNCHANGED scriptVars
    /\ lastEvent' = Event("setNextIndex", -1, NoPayload)
    /\ UNCHANGED <<traces, elements, data, showFiltered, classes, currentSegmentClassIds,
                   configTimer, srvSegments, srvLabels>>

SetPreviousIndex ==
    LET index == PreviousIndexValue(currentIndex, Len(elements))
    IN  /\ index.nan \/ index.v >= -MaxNegDepth
        /\ setCurrentIndex(index, plots)
        /\ UNCHANGED scriptVars
        /\ lastEvent' = Event("setPreviousIndex", -1, NoPayload)
        /\ UNCHANGED <<traces, elements, data, showFiltered, classes, currentSegmentClassIds,
                       configTimer, srvSegments, srvLabels>>

\* the test of setCurrentIndexFromText on the parsed number
TextIndexAccepted(index, n) == JsGt(index, Num(0)) /\ JsLe(index, Num(n))

\* $scope.setCurrentIndexFromText(), $scope.currentSegmentText being text
SetCurrentIndexFromText(text) ==
    LET index == parseInt(text)
    IN  /\ IF TextIndexAccepted(index, Len(elements))
           THEN setCurrentIndex(JsSub(index, Num(1)), plots)
           ELSE UNCHANGED <<currentIndex, plots, net>>
        /\ UNCHANGED scriptVars
        /\ lastEvent' = Event("setCurrentIndexFromText", -1, NoPayload)
        /\ UNCHANGED <<traces, elements, data, showFiltered, classes, currentSegmentClassIds,
                       configTimer, srvSegments, srvLabels>>

\* a listener that takes every relayout event for a zoom
IsZoomUnchecked(eventdata) == TRUE

\* a test that takes either endpoint for a zoom
IsZoomEither(eventdata) == K0 \in DOMAIN eventdata \/ K1 \in DOMAIN eventdata

\* the test of zoomListenerFunc on the event payload
IsZoom(eventdata) == K0 \in DOMAIN eventdata /\ K1 \in DOMAIN eventdata

\* a listener without the grouping of the primary plots
ZoomIndicesUngrouped(plotIndex) == <<plotIndex>>

\* the array 'indices' of zoomListenerFunc(plotIndex)
ZoomIndices(plotIndex) ==
    IF plotIndex = 1 \/ plotIndex = 2 \/ plotIndex = 3 THEN <<0, 1, 2>> ELSE <<plotIndex>>

\* the plots written by indices.forEach(function(element, index, array){
\* $scope.plots[index].zoom = ...}): the positions 0 .. length-1 of the array
ForEachTargets(indices) == {k - 1 : k \in DOMAIN indices}

\* the plots once the forEach of zoomListenerFunc has run
ApplyZoom(ps, plotIndex, eventdata) ==
    [i \in DOMAIN ps |->
        IF (i - 1) \in ForEachTargets(ZoomIndices(plotIndex))
        THEN [ps[i] EXCEPT !.zoom = <<Get(eventdata, K0), Get(eventdata, K1)>>]
        ELSE ps[i]]

\* the plotly_relayout listener of plot plotIndex, attached by configPlots
ZoomListener(plotIndex, eventdata) ==
    /\ Configured(plots)
    /\ IF ~IsZoom(eventdata)
       THEN UNCHANGED <<currentIndex, plots, net>>
       ELSE refreshCurrentIndex(ApplyZoom(plots, plotIndex, eventdata))
    /\ UNCHANGED scriptVars
    /\ lastEvent' = Event("plotly_relayout", plotIndex, eventdata)
    /\ UNCHANGED <<traces, elements, data, showFiltered, classes, currentSegmentClassIds,
                   configTimer, srvSegments, srvLabels>>

\* The filter checkbox: Angular has flipped $scope.showFiltered when
\* toggleFilter runs; toggleFilter calls $scope.updatePlots, which the
\* controller never defines (only updatePlots_old), so the call throws a
\* TypeError and nothing else happens.
ToggleFilter ==
    /\ showFiltered' = ~showFiltered
    /\ UNCHANGED scriptVars
    /\ lastEvent' = Event("toggleFilter", -1, NoPayload)
    /\ UNCHANGED <<traces, elements, currentIndex, data, plots, classes, currentSegmentClassIds,
                   configTimer, net, srvSegments, srvLabels>>

\* $scope.toggleClassIdSelectionForCurrentSegment(classId), for a class the page lists
ToggleClassId(classId) ==
    /\ classId \in classes
    /\ BagCardinality(net) < MaxInFlight
    /\ net' = net (+) SetToBag({ToggleRequest(classId, ElementAt(elements, currentIndex))})
    /\ UNCHANGED scriptVars
    /\ lastEvent' = Event("toggleClassId", -1, NoPayload)
    /\ UNCHANGED <<scopeVars, pageVars, srvSegments, srvLabels>>

\* the data of plotly.newPlot in configPlots: one placeholder trace
emptyData == <<[x0 |-> 0, dx |-> 1, y |-> [seg |-> "none", filtered |-> FALSE, plot |-> 0]]>>

\* the index configPlots selects: 0 when none is selected and there are elements
ConfigIndex(cur, n) == IF JsLt(cur, Num(0)) /\ n # 0 THEN Num(0) ELSE cur

\* a configPlots that selects the first segment whatever the index is
ConfigPlotsSelectsFirst ==
    /\ configTimer
    /\ configTimer' = FALSE
    /\ traces' = [i \in DOMAIN traces |-> emptyData]
    /\ LET ps  == [i \in 1..Len(plots) |-> PlotEntry(i - 1)]
           idx == IF Len(elements) # 0 THEN Num(0) ELSE currentIndex
       IN  setCurrentIndex(idx, ps)
    /\ UNCHANGED scriptVars
    /\ lastEvent' = Event("configPlots", -1, NoPayload)
    /\ UNCHANGED <<elements, data, showFiltered, classes, currentSegmentClassIds,
                   srvSegments, srvLabels>>

\* $scope.configPlots(), run by the $timeout of refreshElements
ConfigPlots ==
    /\ configTimer
    /\ configTimer' = FALSE
    /\ traces' = [i \in DOMAIN traces |-> emptyData]
    /\ LET ps  == [i \in 1..Len(plots) |-> PlotEntry(i - 1)]
       IN  setCurrentIndex(ConfigIndex(currentIndex, Len(elements)), ps)
    /\ UNCHANGED scriptVars
    /\ lastEvent' = Event("configPlots", -1, NoPayload)
    /\ UNCHANGED <<elements, data, showFiltered, classes, currentSegmentClassIds,
                   srvSegments, srvLabels>>

(***************************************************************************)
(* The backend, as its endpoints answer.  A request in flight is served    *)
(* when its response is delivered, and the requests in flight are answered *)
(* in any order.                                                           *)
(***************************************************************************)
\* the number of plot entries of the payload of a segment: one more than the
\* page has plots for the first segment, the three primary plots only for the
\* second, one per plot for the others
PayloadLen(segId) ==
    IF segId = AllSegIds[1] THEN NumPlots + 1
    ELSE IF segId = AllSegIds[2] THEN 3 ELSE NumPlots

\* the plot entries [title, x0, dx, y] of the payload; y stands for the samples
\* computed for the segment, the filter flag and the plot
PlotEntries(param) ==
    [i \in 1..PayloadLen(param.segId) |->
        [title |-> param.segId, x0 |-> 0, dx |-> 1,
         y |-> [seg |-> param.segId, filtered |-> param.filteredRemResp, plot |-> i - 1]]]

\* the body of the /get_data response: the payload computed for the segment
\* and the filter flag, and the segment's class ids
GetDataBody(param) ==
    [segId |-> param.segId, filteredRemResp |-> param.filteredRemResp,
     plotData |-> PlotEntries(param),
     class_ids |-> srvLabels[param.segId]]

Toggled(ids, classId) == IF classId \in ids THEN ids \ {classId} ELSE ids \cup {classId}

\* whether the backend knows the segment and the class of a toggle
ToggleServed(param) == param.segment_id \in Range(srvSegments) /\ param.class_id \in ClassIds

\* the body of the /toggle_class_id response: the classes, and the class ids
\* of the segment once the class is toggled
ToggleBody(param) ==
    [classes |-> ClassIds,
     segment_class_ids |-> Toggled(srvLabels[param.segment_id], param.class_id)]

(***************************************************************************)
(* The $http callbacks; redrawPlots changes only the plotly surfaces.      *)
(***************************************************************************)
IsRequest(m, url) == m.dir = "request" /\ m.url = url

Remove(m) == net (-) SetToBag({m})

Min(a, b) == IF a < b THEN a ELSE b

\* the number of plots redrawPlots renders: Math.min($scope.plots.length,
\* scopeData.length); on plots that configPlots has not filled yet,
\* $scope.plots[0].div throws a TypeError and nothing is rendered
RenderCount(ps, scopeData) ==
    IF Configured(ps) THEN Min(Len(ps), Len(scopeData.plotData)) ELSE 0

\* a redrawPlots that deletes no trace before it adds one
TraceIndicesNone(divData) == {}

\* div.data.map(function(elm, index, array){return index;})
TraceIndices(divData) == {k - 1 : k \in DOMAIN divData}

\* plotly.deleteTraces(div, indices)
DeleteTraces(divData, indices) ==
    LET Kept[k \in 0..Len(divData)] ==
            IF k = 0 THEN <<>>
            ELSE IF (k - 1) \in indices THEN Kept[k - 1]
            ELSE Append(Kept[k - 1], divData[k])
    IN  Kept[Len(divData)]

\* the trace redrawPlots builds from a plot entry of the payload
TraceOf(plotData) == [x0 |-> plotData.x0, dx |-> plotData.dx, y |-> plotData.y]

\* the surfaces once $scope.redrawPlots() has run on the data buffer scopeData
redrawPlots(ps, tr, scopeData) ==
    [i \in DOMAIN tr |->
        IF i <= RenderCount(ps, scopeData)
        THEN DeleteTraces(tr[i], TraceIndices(tr[i])) \o <<TraceOf(scopeData.plotData[i])>>
        ELSE tr[i]]

\* the plotly_relayout events of the plotly.relayout(div, {title: title})
\* calls of redrawPlots, in the order of the plots
RelayoutEvents(ps, scopeData) ==
    [i \in 1..RenderCount(ps, scopeData) |->
        [plotIndex |-> i - 1,
         eventdata |-> [k \in {"title"} |-> scopeData.plotData[i].title]]]

\* index, plots and channel once setCurrentIndex(index) has run on st
SetCurrentIndexOutcome(st, index) ==
    IF JsLt(index, Num(0))
    THEN [st EXCEPT !.currentIndex = index]
    ELSE [currentIndex |-> index,
          plots |-> ResetZooms(st.plots),
          net |-> st.net (+) SetToBag({GetDataRequest(ElementAt(elements, index),
                                                      showFiltered, ZoomsOf(st.plots))})]

\* index, plots and channel once the relayout listener of plotIndex has run on st
ListenerOutcome(st, plotIndex, eventdata) ==
    IF ~IsZoom(eventdata)
    THEN st
    ELSE SetCurrentIndexOutcome(
             [st EXCEPT !.plots = ApplyZoom(st.plots, plotIndex, eventdata)],
             st.currentIndex)

\* index, plots and channel once the listeners have handled the events in turn
RECURSIVE AfterListeners(_, _)
AfterListeners(events, st) ==
    IF events = <<>>
    THEN st
    ELSE AfterListeners(Tail(events),
                        ListenerOutcome(st, Head(events).plotIndex, Head(events).eventdata))

\* the callback of init
GetClassesResponse(m) ==
    /\ IsRequest(m, "/get_classes")
    /\ classes' = ClassIds
    /\ net' = Remove(m) (+) SetToBag({Request("/get_elements", EmptyBody)})
    /\ UNCHANGED scriptVars
    /\ lastEvent' = Event("getClassesResponse", -1, NoPayload)
    /\ UNCHANGED <<traces, elements, currentIndex, data, plots, showFiltered,
                   currentSegmentClassIds, configTimer, srvSegments, srvLabels>>

\* the callback of refreshElements
GetElementsResponse(m) ==
    /\ IsRequest(m, "/get_elements")
    /\ elements' = srvSegments
    /\ configTimer' = TRUE
    /\ net' = Remove(m)
    /\ UNCHANGED scriptVars
    /\ lastEvent' = Event("getElementsResponse", -1, NoPayload)
    /\ UNCHANGED <<traces, currentIndex, data, plots, showFiltered, classes,
                   currentSegmentClassIds, srvSegments, srvLabels>>

\* a callback that drops the response of a request for another segment than the
\* current one
GetDataResponseTagged(m) ==
    /\ IsRequest(m, "/get_data")
    /\ m.param.segId \in Range(srvSegments)
    /\ IF m.param.segId = ElementAt(elements, currentIndex)
       THEN /\ data' = GetDataBody(m.param)
            /\ currentSegmentClassIds' = GetDataBody(m.param).class_ids
       ELSE UNCHANGED <<data, currentSegmentClassIds>>
    /\ traces' = IF m.param.segId = ElementAt(elements, currentIndex)
                  THEN redrawPlots(plots, traces, data') ELSE traces
    /\ net' = Remove(m)
    /\ UNCHANGED scriptVars
    /\ lastEvent' = Event("getDataResponse", -1, NoPayload)
    /\ UNCHANGED <<elements, currentIndex, plots, showFiltered, classes, configTimer,
                   srvSegments, srvLabels>>

\* the callback of setCurrentIndex: it fills the data buffer and the labels and
\* calls redrawPlots, whose relayout events the listeners of the plots handle
\* before any other event of the page
GetDataResponse(m) ==
    /\ IsRequest(m, "/get_data")
    /\ m.param.segId \in Range(srvSegments)
    /\ data' = GetDataBody(m.param)
    /\ currentSegmentClassIds' = GetDataBody(m.param).class_ids
    /\ traces' = redrawPlots(plots, traces, data')
    /\ LET st == AfterListeners(RelayoutEvents(plots, data'),
                                [currentIndex |-> currentIndex, plots |-> plots,
                                 net |-> Remove(m)])
       IN  /\ currentIndex' = st.currentIndex
           /\ plots' = st.plots
           /\ net' = st.net
    /\ UNCHANGED scriptVars
    /\ lastEvent' = Event("getDataResponse", -1, NoPayload)
    /\ UNCHANGED <<elements, showFiltered, classes, configTimer, srvSegments, srvLabels>>

\* a success callback that flips the bit of the class locally
ToggleSuccessLocalFlip(m) ==
    /\ IsRequest(m, "/toggle_class_id")
    /\ ToggleServed(m.param)
    /\ srvLabels' = [srvLabels EXCEPT ![m.param.segment_id] =
                                         ToggleBody(m.param).segment_class_ids]
    /\ classes' = ToggleBody(m.param).classes
    /\ currentSegmentClassIds' = Toggled(currentSegmentClassIds, m.param.class_id)
    /\ net' = Remove(m)
    /\ UNCHANGED scriptVars
    /\ lastEvent' = Event("toggleSuccess", -1, NoPayload)
    /\ UNCHANGED <<traces, elements, currentIndex, data, plots, showFiltered,
                   configTimer, srvSegments>>

\* the success callback of toggleClassIdSelectionForCurrentSegment
ToggleSuccess(m) ==
    /\ IsRequest(m, "/toggle_class_id")
    /\ ToggleServed(m.param)
    /\ srvLabels' = [srvLabels EXCEPT ![m.param.segment_id] =
                                         ToggleBody(m.param).segment_class_ids]
    /\ classes' = ToggleBody(m.param).classes
    /\ currentSegmentClassIds' = ToggleBody(m.param).segment_class_ids
    /\ net' = Remove(m)
    /\ UNCHANGED scriptVars
    /\ lastEvent' = Event("toggleSuccess", -1, NoPayload)
    /\ UNCHANGED <<traces, elements, currentIndex, data, plots, showFiltered,
                   configTimer, srvSegments>>

\* an error callback that clears the labels of the page
RequestFailsClearsLabels(m) ==
    /\ m.dir = "request"
    /\ net' = Remove(m)
    /\ currentSegmentClassIds' = {}
    /\ UNCHANGED scriptVars
    /\ lastEvent' = Event(IF m.url = "/toggle_class_id" THEN "toggleError"
                          ELSE "requestFails", -1, NoPayload)
    /\ UNCHANGED <<traces, elements, currentIndex, data, plots, showFiltered, classes,
                   configTimer, srvSegments, srvLabels>>

\* a request that fails (in transport, or answered with an error status): the
\* error callback of the toggle is empty, the other requests have none
RequestFails(m) ==
    /\ m.dir = "request"
    /\ net' = Remove(m)
    /\ UNCHANGED scriptVars
    /\ lastEvent' = Event(IF m.url = "/toggle_class_id" THEN "toggleError"
                          ELSE "requestFails", -1, NoPayload)
    /\ UNCHANGED <<scopeVars, pageVars, srvSegments, srvLabels>>

(***************************************************************************)
(* The next-state relations.  Next is the whole controller.  The filter    *)
(* checkbox and the label toggles write neither the index nor the plots,   *)
(* and navigation and zoom write neither the labels nor the filter flag;   *)
(* NextBrowse, NextFilter and NextLabels are the parts of Next that the    *)
(* properties about the one or the other are checked under.                *)
(***************************************************************************)
Pipeline ==
    \/ ConfigPlots
    \/ \E m \in BagToSet(net) : GetClassesResponse(m)
    \/ \E m \in BagToSet(net) : GetElementsResponse(m)
    \/ \E m \in BagToSet(net) : GetDataResponse(m)

Failures == \E m \in BagToSet(net) : RequestFails(m)

Navigation ==
    \/ SetNextIndex
    \/ SetPreviousIndex
    \/ \E text \in Texts : SetCurrentIndexFromText(text)

Zooming ==
    \E plotIndex \in PlotIndices, eventdata \in EventPayloads :
        ZoomListener(plotIndex, eventdata)

Labelling ==
    \/ \E classId \in ClassIds : ToggleClassId(classId)
    \/ \E m \in BagToSet(net) : ToggleSuccess(m)

NextBrowse == Navigation \/ Zooming \/ Pipeline \/ Failures

NextFilter == ToggleFilter \/ SetNextIndex \/ Pipeline \/ Failures

\* every request answered: the label toggles and navigation over a reliable channel
NextLabels == Labelling \/ SetNextIndex \/ Pipeline

Next == Navigation \/ Zooming \/ ToggleFilter \/ Labelling \/ Pipeline \/ Failures

Spec == Init /\ [][Next]_vars

SpecBrowse == Init /\ [][NextBrowse]_vars

SpecFilter == Init /\ [][NextFilter]_vars

SpecLabels == Init /\ [][NextLabels]_vars

\* the label toggles and navigation over a channel that may fail
NextLabelsLossy == NextLabels \/ Failures

SpecLabelsLossy == Init /\ [][NextLabelsLossy]_vars

(***************************************************************************)
(* The pipinstall script.  It is run with arguments "$@" in a directory    *)
(* where the requirements file req.txt exists; every pip command either    *)
(* succeeds or fails.                                                      *)
(***************************************************************************)
Words == {"-r", "req.txt", "none.txt", "obspy"}

ArgLists == UNION {[1..n -> Words] : n \in 0..MaxArgs}

\* the names for which [ -f name ] holds
ExistingFiles == {"req.txt"}

\* texts that grep reads, as the sequences of their characters
NumpyWord == <<"n", "u", "m", "p", "y">>

NumpyPinned == NumpyWord \o <<"=", "=", "1">>

NumpyDoc == NumpyWord \o <<"d", "o", "c">>

Obspy == <<"o", "b", "s", "p", "y">>

\* the requirements files tried: one numpy line, none, two lines that match, empty
FileContents ==
    {<<Obspy, NumpyPinned>>, <<Obspy>>, <<NumpyPinned, NumpyDoc>>, <<>>}

\* the pattern occurs in the line
Contains(line, pattern) ==
    \E k \in 0..(Len(line) - Len(pattern)) :
        SubSeq(line, k + 1, k + Len(pattern)) = pattern

\* `grep pattern file`: the lines that contain the pattern, in their order
Grep(pattern, lines) == SelectSeq(lines, LAMBDA line : Contains(line, pattern))

InitPip ==
    /\ PageInit
    /\ srvSegments = <<>>
    /\ pc = "scan"
    /\ args \in ArgLists
    /\ fileLines \in FileContents
    /\ argIndex = 1
    /\ reqfile = ""
    /\ numpy = <<>>
    /\ ran = <<>>
    /\ status = 0

\* "${!j}": the argument after the i-th, empty past the last one
NextVar(as, k) == IF k + 1 <= Len(as) THEN as[k + 1] ELSE ""

\* one turn of the for loop that looks for -r
ScanArg ==
    /\ pc = "scan"
    /\ IF argIndex > Len(args)
       THEN pc' = "check" /\ UNCHANGED <<argIndex, reqfile>>
       ELSE IF args[argIndex] = "-r"
            THEN /\ reqfile' = NextVar(args, argIndex)
                 /\ pc' = "check"
                 /\ UNCHANGED argIndex
            ELSE /\ argIndex' = argIndex + 1
                 /\ UNCHANGED <<pc, reqfile>>
    /\ UNCHANGED <<args, fileLines, numpy, ran, status, pageAndBackendVars>>

\* the choice of the numpy requirement
CheckReqFile ==
    /\ pc = "check"
    /\ IF reqfile # ""
       THEN IF reqfile \notin ExistingFiles
            THEN /\ numpy' = <<NumpyWord>>
                 /\ status' = 1
                 /\ pc' = "done"
            ELSE /\ numpy' = Grep(NumpyWord, fileLines)
                 /\ pc' = "pip1"
                 /\ UNCHANGED status
       ELSE /\ numpy' = <<NumpyWord>>
            /\ pc' = "pip1"
            /\ UNCHANGED status
    /\ UNCHANGED <<args, fileLines, argIndex, reqfile, ran, pageAndBackendVars>>

PipPc == <<"pip1", "pip2", "pip3">>

\* the arguments of the pip install commands of the chain
PipCommand(step) ==
    IF step = 1 THEN <<"--upgrade", "pip", "setuptools", "wheel">>
    ELSE IF step = 2 THEN <<numpy>>
    ELSE args

\* a chain joined by ; instead of &&
ChainNextUnconditional(step, ok) == IF step < 3 THEN PipPc[step + 1] ELSE "exit"

\* where a && chain goes after a command
ChainNext(step, ok) == IF ok /\ step < 3 THEN PipPc[step + 1] ELSE "exit"

\* one pip command of the chain, which succeeds or fails
PipStep ==
    /\ pc \in Range(PipPc)
    /\ LET step == CHOOSE k \in DOMAIN PipPc : PipPc[k] = pc
       IN  \E ok \in BOOLEAN :
               /\ ran' = Append(ran, [step |-> step, argv |-> PipCommand(step), ok |-> ok])
               /\ status' = IF ok THEN 0 ELSE 1
               /\ pc' = ChainNext(step, ok)
    /\ UNCHANGED <<args, fileLines, argIndex, reqfile, numpy, pageAndBackendVars>>

\* exit: with the status of the last command
Exit ==
    /\ pc = "exit"
    /\ pc' = "done"
    /\ UNCHANGED <<args, fileLines, argIndex, reqfile, numpy, ran, status,
                   pageAndBackendVars>>

NextPip == ScanArg \/ CheckReqFile \/ PipStep \/ Exit

SpecPip == InitPip /\ [][NextPip]_vars

(***************************************************************************)
(* Properties.                                                             *)
(***************************************************************************)
\* index designates a segment of a list of n segments
InRange(index, n) == ~index.nan /\ index.v >= 0 /\ index.v < n

NavigationNames == {"setNextIndex", "setPreviousIndex", "setCurrentIndexFromText"}

AllZoomsNull(ps) == \A i \in DOMAIN ps : ~IsHole(ps[i]) => ps[i].zoom = NullZoom

\* the last handler was the relayout listener of a plot in S, run on a payload
\* that carries both range endpoints
ZoomHandledOn(S) ==
    /\ lastEvent.name = "plotly_relayout"
    /\ lastEvent.plotIndex \in S
    /\ {K0, K1} \subseteq DOMAIN lastEvent.eventdata

\* the range (r0, r1) of that payload
EventRange == <<Get(lastEvent.eventdata, K0), Get(lastEvent.eventdata, K1)>>

\* the requests a step puts in flight
NewRequests == {m \in BagToSet(net') : CopiesIn(m, net') > CopiesIn(m, net)}

\* C1: whenever the segment list is non-empty and the handler that ran last
\* is a navigation operation (setNextIndex, setPreviousIndex,
\* setCurrentIndexFromText), the current index is an integer in [0, N).
C1_IndexValidAfterNavigation ==
    (lastEvent.name \in NavigationNames /\ Len(elements) > 0)
        => InRange(currentIndex, Len(elements))

\* C2: a setPreviousIndex that runs right after a setNextIndex which found a
\* current index c in [0, N) leaves the current index equal to c.
C2_NextThenPreviousRestores ==
    (lastEvent.name = "setPreviousIndex" /\ InRange(lastEvent.nextFrom, Len(elements)))
        => currentIndex = lastEvent.nextFrom

\* the wraparound case of C2: from the last segment, next went to 0 and
\* previous came back to N-1
C2_Witness ==
    /\ Len(elements) >= 2
    /\ lastEvent.name = "setPreviousIndex"
    /\ lastEvent.nextFrom = Num(Len(elements) - 1)
    /\ lastEvent.from = Num(0)
    /\ currentIndex = Num(Len(elements) - 1)

\* a text that is a decimal numeral, and the integer it denotes
IsNumericText(text) == text # <<>> /\ \A i \in DOMAIN text : text[i] \in Digits

TextValue(text) == DigitRun(text, 0)

\* C3: setCurrentIndexFromText changes nothing (index, zooms, data buffer,
\* requests in flight) when the text is non-numeric or denotes a value outside
\* [1, N], and applies setCurrentIndex(v - 1) when it denotes an integer v in
\* [1, N].
C3_TextJumpOnlyForNumbersInRange ==
    [][\A text \in Texts :
          SetCurrentIndexFromText(text) =>
              IF IsNumericText(text) /\ TextValue(text) \in 1..Len(elements)
              THEN setCurrentIndex(Num(TextValue(text) - 1), plots)
              ELSE UNCHANGED <<scopeVars, net>>]_vars

\* the handlers that reach setCurrentIndex (the relayout listener only for a
\* payload with both endpoints; setCurrentIndexFromText only with an index
\* that is not negative)
SetCurrentIndexRan ==
    \/ lastEvent.name \in {"setNextIndex", "setPreviousIndex", "configPlots"}
    \/ ZoomHandledOn(PlotIndices)

\* C4 as claimed: after setCurrentIndex(k) returns, for every k including the
\* sentinel -1 reached through refreshCurrentIndex, every plot entry's stored
\* zoom is (null, null).
C4_ZoomsNullAfterSetCurrentIndex == SetCurrentIndexRan => AllZoomsNull(plots)

\* C4 amended: after setCurrentIndex(k) returns for a k that is not negative,
\* every plot entry's stored zoom is (null, null).
C4_ZoomsNullAfterSetCurrentIndexNotNegative ==
    ((SetCurrentIndexRan \/ lastEvent.name = "setCurrentIndexFromText")
        /\ ~JsLt(currentIndex, Num(0)))
        => AllZoomsNull(plots)

\* a zoom was written on a selected segment, sent with the request, and reset
C4_Witness ==
    /\ ZoomHandledOn(PlotIndices)
    /\ InRange(currentIndex, Len(elements))
    /\ Configured(plots) /\ AllZoomsNull(plots)
    /\ \E m \in BagToSet(net) : m.url = "/get_data" /\ m.param.zooms[1] = EventRange

\* the zooms array a relayout step sent, or left stored when the index is
\* negative and setCurrentIndex returns before sending: what the handler wrote
WrittenZoomsAre(P(_)) ==
    IF JsLt(currentIndex', Num(0))
    THEN P(ZoomsOf(plots'))
    ELSE NewRequests # {} /\ \A m \in NewRequests : m.url = "/get_data" /\ P(m.param.zooms)

\* the step is the relayout listener of a plot in S, run on a payload that
\* carries both range endpoints
ZoomStepOn(S) == ZoomHandledOn(S)'

PrimaryHoldRange(zooms) == \A j \in 1..3 : zooms[j] = EventRange'

\* C5 as claimed: after a zoom event with both range endpoints (r0, r1) on plot
\* 1 or 2 has been handled, the stored zooms of plot entries 0, 1 and 2 all
\* equal (r0, r1).
C5_StoredZoomsEqualRangeAfterZoom ==
    ZoomHandledOn({1, 2}) => \A j \in 1..3 : plots[j].zoom = EventRange

\* C5 amended: a zoom event with both range endpoints (r0, r1) on plot 1 or 2
\* writes (r0, r1) to entries 0, 1 and 2; with a current index that is not
\* negative these are entries 0, 1 and 2 of the zooms array of the one
\* /get_data request the handler issues, and every stored zoom is (null, null)
\* afterwards; with a negative current index no request is issued and the
\* stored zooms of entries 0, 1 and 2 equal (r0, r1).
C5_ZoomRangeSentThenReset ==
    [][ZoomStepOn({1, 2}) =>
          /\ WrittenZoomsAre(PrimaryHoldRange)
          /\ IF JsLt(currentIndex', Num(0))
             THEN NewRequests = {}
             ELSE AllZoomsNull(plots')]_vars

\* a zoom on plot 1 or 2 with a segment selected: its range is in the request
\* in flight and the stored zooms are null again
C5_Witness ==
    /\ ZoomHandledOn({1, 2})
    /\ InRange(currentIndex, Len(elements))
    /\ AllZoomsNull(plots)
    /\ \E m \in BagToSet(net) :
           /\ m.url = "/get_data"
           /\ m.param.segId = ElementAt(elements, currentIndex)
           /\ \A j \in 1..3 : m.param.zooms[j] = EventRange
           /\ \A j \in 4..NumPlots : m.param.zooms[j] = NullZoom

CustomPlotIndices == {i \in PlotIndices : i >= 4}

\* C6: a zoom event with both range endpoints on a custom plot i >= 4 writes
\* the range into entry i only; no other entry (in particular 0, 1, 2) is
\* written.
C6_CustomZoomWritesOwnEntryOnly ==
    [][ZoomStepOn(CustomPlotIndices) =>
          LET i == lastEvent'.plotIndex
              OnlyOwn(zooms) == zooms = [ZoomsOf(plots) EXCEPT ![i + 1] = EventRange']
          IN  WrittenZoomsAre(OnlyOwn)]_vars

\* C7: a zoom event with both range endpoints on any of the plots 0, 1, 2
\* writes the same range into all three entries 0, 1 and 2.
C7_PrimaryPlotsMoveTogether ==
    [][ZoomStepOn({0, 1, 2}) => WrittenZoomsAre(PrimaryHoldRange)]_vars

\* C8: a relayout event whose payload lacks 'xaxis.range[0]' or
\* 'xaxis.range[1]' changes no plot's zoom, does not change the current index
\* and issues no request.
C8_RelayoutWithoutRangeIgnored ==
    [][(/\ lastEvent'.name = "plotly_relayout"
        /\ ~({K0, K1} \subseteq DOMAIN lastEvent'.eventdata))
          => UNCHANGED <<scopeVars, net>>]_vars

\* a relayout carrying one endpoint only has been ignored on a selected segment
C8_Witness ==
    /\ lastEvent.name = "plotly_relayout"
    /\ K0 \in DOMAIN lastEvent.eventdata /\ K1 \notin DOMAIN lastEvent.eventdata
    /\ InRange(currentIndex, Len(elements))
    /\ net = EmptyBag

\* C9: toggling the filter issues a /get_data request for the current segment
\* that carries the new value of the filter flag.
C9_ToggleFilterFetches ==
    [][(lastEvent'.name = "toggleFilter" /\ InRange(currentIndex, Len(elements)))
          => \E m \in NewRequests :
                 /\ m.url = "/get_data"
                 /\ m.param.segId = ElementAt(elements, currentIndex)
                 /\ m.param.filteredRemResp = showFiltered']_vars

\* C10: once no request is in flight, the local label assignment equals the
\* backend's label assignment of the segment at the current index.
C10_LabelsMatchBackendWhenQuiet ==
    (net = EmptyBag /\ InRange(currentIndex, Len(elements)))
        => currentSegmentClassIds = srvLabels[ElementAt(elements, currentIndex)]

\* the requests whose response (or failure) a step delivers
Delivered == {m \in BagToSet(net) : CopiesIn(m, net') < CopiesIn(m, net)}

\* C11: issuing a label toggle changes neither the local label set nor the
\* local current-segment assignment; the success response sets both to exactly
\* the values it carries (classes, segment_class_ids), whatever they were.
C11_ToggleAppliesResponseOnly ==
    [][/\ lastEvent'.name = "toggleClassId" =>
            UNCHANGED <<classes, currentSegmentClassIds>>
       /\ lastEvent'.name = "toggleSuccess" =>
            /\ Delivered # {}
            /\ \A m \in Delivered :
                   /\ classes' = ToggleBody(m.param).classes
                   /\ currentSegmentClassIds' = ToggleBody(m.param).segment_class_ids]_vars

\* a toggle answered before any /get_data response: the page showed no label,
\* the backend held the class, and the response leaves the assignment empty
C11_Witness ==
    /\ lastEvent.name = "toggleSuccess"
    /\ data = NoData
    /\ InRange(currentIndex, Len(elements))
    /\ currentSegmentClassIds = {}
    /\ srvLabels[ElementAt(elements, currentIndex)] = {}
    /\ classes = ClassIds

\* C12: a /toggle_class_id request that fails leaves the controller state
\* (labels, assignment, index, data buffer, zooms) as it was before the toggle
\* was attempted, and no further request is issued: neither the attempt nor
\* the failure writes the state, and the failure issues no request.
C12_ToggleFailureChangesNothing ==
    [][/\ lastEvent'.name = "toggleClassId" =>
            /\ UNCHANGED scopeVars
            /\ \A m \in NewRequests : m.url = "/toggle_class_id"
       /\ lastEvent'.name = "toggleError" =>
            /\ UNCHANGED scopeVars
            /\ NewRequests = {}]_vars

\* a toggle has failed on a segment whose labels the page shows
C12_Witness ==
    /\ lastEvent.name = "toggleError"
    /\ InRange(currentIndex, Len(elements))
    /\ currentSegmentClassIds = ClassIds
    /\ data # NoData
    /\ net = EmptyBag

\* the steps that take a request out of the channel: its callback, or its failure
ResponseNames ==
    {"getClassesResponse", "getElementsResponse", "getDataResponse", "toggleSuccess",
     "toggleError", "requestFails"}

\* C13: requests are neither tagged nor cancelled: no handler takes a request
\* in flight back, and a /get_data response is applied when it is delivered,
\* whatever the current index is by then; so a stale payload can overwrite a
\* newer one (the execution that does is C13_Witness).
C13_ResponsesNeitherTaggedNorCancelled ==
    [][/\ lastEvent'.name \notin ResponseNames => Delivered = {}
       /\ lastEvent'.name = "getDataResponse" =>
            /\ Delivered # {}
            /\ \A m \in Delivered :
                   /\ data' = GetDataBody(m.param)
                   /\ currentSegmentClassIds' = GetDataBody(m.param).class_ids]_vars

\* every request has been answered, the response delivered last was the one
\* for segment A, and the current index designates another segment B whose
\* labels differ: data buffer and label assignment hold A's payload
C13_Witness ==
    /\ lastEvent.name = "getDataResponse"
    /\ net = EmptyBag
    /\ InRange(currentIndex, Len(elements))
    /\ data # NoData
    /\ data.segId # ElementAt(elements, currentIndex)
    /\ currentSegmentClassIds = srvLabels[data.segId]
    /\ currentSegmentClassIds # srvLabels[ElementAt(elements, currentIndex)]

\* the /get_elements request is issued only by the callback of /get_classes
ElementsRequestedAfterClasses ==
    \A m \in NewRequests :
        m.url = "/get_elements" => lastEvent'.name = "getClassesResponse"

\* the requests a step issues are exactly one /get_data request for segId
OneDataRequestFor(segId) ==
    /\ Cardinality(NewRequests) = 1
    /\ \A m \in NewRequests :
           /\ m.url = "/get_data" /\ m.param.segId = segId
           /\ CopiesIn(m, net') = CopiesIn(m, net) + 1

\* C14 as claimed: /get_elements is requested only after the /get_classes
\* response; once the list is received and the plots are configured, the
\* current index is 0 and a /get_data request for the first segment is issued
\* if the list is non-empty, and the index stays -1 with no /get_data request
\* if it is empty.
C14_InitSelectsFirstSegment ==
    [][/\ ElementsRequestedAfterClasses
       /\ lastEvent'.name = "configPlots" =>
            IF Len(elements) > 0
            THEN currentIndex' = Num(0) /\ OneDataRequestFor(elements[1])
            ELSE currentIndex' = Num(-1) /\ NewRequests = {}]_vars

\* C14 amended: /get_elements is requested only after the /get_classes
\* response; when the plots are configured, a current index that is negative
\* becomes 0, with one /get_data request for the first segment, if the list is
\* non-empty, and stays as it is with no request if the list is empty; a
\* current index that is not negative (set by a navigation call in between)
\* is kept, with one /get_data request for elements[index].
C14_InitSelectsFirstSegmentIfNoneSelected ==
    [][/\ ElementsRequestedAfterClasses
       /\ lastEvent'.name = "configPlots" =>
            IF JsLt(currentIndex, Num(0))
            THEN IF Len(elements) > 0
                 THEN currentIndex' = Num(0) /\ OneDataRequestFor(elements[1])
                 ELSE currentIndex' = currentIndex /\ NewRequests = {}
            ELSE /\ currentIndex' = currentIndex
                 /\ OneDataRequestFor(ElementAt(elements, currentIndex))]_vars

\* configPlots found index -1 and a non-empty list: index 0 is selected and the
\* request for the first segment is in flight
C14_Witness ==
    /\ lastEvent.name = "configPlots"
    /\ lastEvent.from = Num(-1)
    /\ Len(elements) > 0
    /\ currentIndex = Num(0)
    /\ Configured(plots)
    /\ \E m \in BagToSet(net) : m.url = "/get_data" /\ m.param.segId = elements[1]

\* C15: after any sequence of redrawPlots calls, every plot whose index is
\* below min(number of plots, payload length) holds exactly one trace, built
\* from the payload applied last; no plot ever holds more than one trace.
C15_OneTracePerPlotFromLastPayload ==
    /\ \A i \in DOMAIN traces : Len(traces[i]) <= 1
    /\ (lastEvent.name = "getDataResponse" /\ Configured(plots)) =>
           \A i \in 1..Min(Len(plots), Len(data.plotData)) :
               traces[i] = <<TraceOf(data.plotData[i])>>

\* the payload of the second segment (three entries) rendered after the
\* payload of the first: plots 0 to 2 hold one trace of the second segment,
\* plot 3 still holds its one trace of the first
C15_Witness ==
    /\ lastEvent.name = "getDataResponse"
    /\ Configured(plots)
    /\ data.segId = AllSegIds[2]
    /\ \A i \in 1..3 : traces[i] = <<TraceOf(data.plotData[i])>>
    /\ Len(traces[4]) = 1 /\ traces[4][1].y.seg = AllSegIds[1]

\* the current index designates a position that is not negative
IndexNotNegative == ~currentIndex.nan /\ currentIndex.v >= 0

\* the entries the forEach of the zoom handler writes for a zoom on plotIndex
UpdatedEntries(plotIndex) == IF plotIndex \in {1, 2, 3} THEN {0, 1, 2} ELSE {0}

\* C16: a zoom event with both range endpoints, received while the current
\* index is >= 0, issues exactly one /get_data request, for the segment at the
\* unchanged current index, whose zooms array holds the event's range at every
\* entry the handler updated and [null, null] elsewhere.
C16_ZoomIssuesOneRequestWithWrittenZooms ==
    [][(ZoomStepOn(PlotIndices) /\ IndexNotNegative) =>
          /\ currentIndex' = currentIndex
          /\ OneDataRequestFor(ElementAt(elements, currentIndex))
          /\ \A m \in NewRequests : \A i \in PlotIndices :
                 m.param.zooms[i + 1] =
                     IF i \in UpdatedEntries(lastEvent'.plotIndex)
                     THEN EventRange' ELSE NullZoom]_vars

\* a zoom on the last custom plot with a segment selected: one request for
\* that segment is in flight, with the range in the entry the handler wrote
C16_Witness ==
    /\ ZoomHandledOn({NumPlots - 1})
    /\ InRange(currentIndex, Len(elements))
    /\ lastEvent.from = currentIndex
    /\ BagCardinality(net) = 1
    /\ \E m \in BagToSet(net) :
           /\ m.url = "/get_data"
           /\ m.param.segId = ElementAt(elements, currentIndex)
           /\ m.param.zooms[1] = EventRange
           /\ \A j \in 2..NumPlots : m.param.zooms[j] = NullZoom

\* C17: every /get_data request issued by a navigation operation
\* (setNextIndex, setPreviousIndex, setCurrentIndexFromText, the selection of
\* configPlots) carries a zooms array whose entries are all unset: [null,
\* null], or null for an entry configPlots has not created yet.
C17_NavigationRequestsCarryNullZooms ==
    [][lastEvent'.name \in NavigationNames \cup {"configPlots"} =>
          \A m \in NewRequests :
              m.url = "/get_data" =>
                  \A i \in DOMAIN m.param.zooms :
                      m.param.zooms[i] \in {NullZoom, JsonNull}]_vars

\* C18: every /get_data request in flight carries a segId that is an element
\* of the segment list (so none is issued while the list is empty).
C18_RequestsNameListedSegments ==
    \A m \in BagToSet(net) :
        m.url = "/get_data" => m.param.segId \in Range(elements)

\* what remains to be done without the user: the requests in flight and the
\* timer, counted with the steps each of them still entails
Pending ==
    LET classesReq  == CopiesIn(Request("/get_classes", EmptyBody), net)
        elementsReq == CopiesIn(Request("/get_elements", EmptyBody), net)
    IN  3 * classesReq + 2 * elementsReq + BagCardinality(net)
            + (IF configTimer THEN 2 ELSE 0)

\* the steps the page takes without the user
SystemNames == ResponseNames \cup {"configPlots"}

RequestedFile(as) ==
    IF \E k \in DOMAIN as : as[k] = "-r"
    THEN LET first == CHOOSE k \in DOMAIN as :
                          as[k] = "-r" /\ \A j \in 1..(k - 1) : as[j] # "-r"
         IN  IF first < Len(as) THEN as[first + 1] ELSE ""
    ELSE ""

\* C20: the pip steps run in the order upgrade, numpy, forwarded arguments,
\* each only if the one before succeeded; when -r names a file that does not
\* exist no pip step runs and the script exits with status 1; the numpy step
\* installs the numpy lines of the file when -r is followed by an existing
\* file, and plain 'numpy' otherwise.
C20_PipStepsChainedAndNumpyFromFile ==
    /\ \A k \in DOMAIN ran :
           /\ ran[k].step = k
           /\ k > 1 => ran[k - 1].ok
    /\ (Len(ran) >= 1 => ran[1].argv = <<"--upgrade", "pip", "setuptools", "wheel">>)
    /\ (Len(ran) >= 3 => ran[3].argv = args)
    /\ (RequestedFile(args) # "" /\ RequestedFile(args) \notin ExistingFiles) =>
           /\ ran = <<>>
           /\ pc \notin Range(PipPc) \cup {"exit"}
           /\ pc = "done" => status = 1
    /\ Len(ran) >= 2 =>
           ran[2].argv = IF RequestedFile(args) \in ExistingFiles
                         THEN <<Grep(NumpyWord, fileLines)>>
                         ELSE <<(<<NumpyWord>>)>>

\* the script has ended with status 0 after the three pip steps, and the
\* numpy step installed the pinned numpy line of the file named after -r
C20_Witness ==
    /\ pc = "done"
    /\ status = 0
    /\ RequestedFile(args) = "req.txt"
    /\ Len(ran) = 3
    /\ ran[2].argv = <<(<<NumpyPinned>>)>>
    /\ ran[3].argv = args

=============================================================================
